---- MODULE Spec2Model ----
(***************************************************************************)
(* mini-shell: the read-eval loop of src/main.rs and the execution         *)
(* primitive of src/executor.rs, as a state machine of two processes: the  *)
(* interpreter (parent) and the child it forks for an external command.    *)
(*                                                                         *)
(* A string is a sequence of characters; a character is a one-character    *)
(* TLA+ string, except "VT", which stands for U+000B (vertical tab): a     *)
(* character that str::trim removes (Unicode White_Space) but that         *)
(* split_ascii_whitespace does not split on.                               *)
(***************************************************************************)
EXTENDS Integers, Sequences, FiniteSets, TLC

VARIABLES
    pc,           \* parent: "top", "flush", "read", "dispatch", "wait", "exited", "panicked"
    cwd,          \* process-wide working directory, a path (sequence of names)
    dir,          \* main.rs:13  the directory rendered in the prompt
    input,        \* main.rs:18  the line buffer of this iteration
    parentFd,     \* the parent's descriptors 0 and 1
    exitStatus,   \* how the parent terminated
    stderr,       \* diagnostics written during the current iteration
    childPc,      \* child: "none", "start", "exec", "running", "terminated"
    childCommand, \* the child's copy of `command`
    childFd,      \* the child's descriptors 0 and 1
    execArg,      \* the string handed to run_execvp
    childArgv,    \* the argument vector of the replaced image
    childProg,    \* executor.rs:8  the program the image was replaced with
    childStatus,  \* how the child terminated
    alive,        \* number of forked processes that have not terminated
    openResult,   \* this iteration: "none", or what open returned: "ok", "err"
    execResult,   \* this iteration: "none", or how run_execvp went: "ok", "err", "index"
    forked,       \* this iteration: fork has returned Ok
    waitStatus,   \* this iteration: main.rs:59  the status waitpid returned, discarded
    cwd0,         \* this iteration: the working directory it started in
    repeat,       \* this iteration: `input` repeats the line of prevCd
    prevCd,       \* history: the previous iteration's line, if a cd that succeeded
    prevCwd       \* history: the working directory before that cd

vars == <<pc, cwd, dir, input, parentFd, exitStatus, stderr, childPc, childCommand,
          childFd, execArg, childArgv, childProg, childStatus, alive, openResult, execResult,
          forked, waitStatus, cwd0, repeat, prevCd, prevCwd>>

parentVars == <<pc, cwd, dir, input, parentFd, exitStatus>>
childVars == <<childPc, childCommand, childFd, execArg, childArgv, childProg, childStatus>>
iterVars == <<openResult, execResult, forked, waitStatus>>
histVars == <<cwd0, repeat, prevCd, prevCwd>>

(***************************************************************************)
(* Bounds and the input alphabet                                           *)
(***************************************************************************)
\* A typed line is a concatenation of at most MaxItems words and separators.
MaxItems == 3

EXIT == <<"e", "x", "i", "t">>
CD == <<"c", "d">>
LS == <<"l", "s">>
SP == <<" ">>
GT == <<">">>
LT == <<"<">>
SLASH == <<"/">>
D == <<"d">>
DOTDOT == <<".", ".">>
DOT == <<".">>
VT == <<"VT">>
TAB == <<"\t">>
NL == <<"\n">>

Items == {SP, GT, LT, EXIT, CD, D, SLASH, LS}

RECURSIVE Flatten(_)
Flatten(ss) == IF ss = <<>> THEN <<>> ELSE Head(ss) \o Flatten(Tail(ss))

ItemLines == {Flatten(ss) : ss \in UNION {[1..n -> Items] : n \in 0..MaxItems}}

\* Longer lines of interest that the item bound does not produce.
ExtraLines ==
    { VT, TAB \o SP, SP \o EXIT \o VT, EXIT \o SP \o D \o SP,
      CD \o SP \o DOTDOT, CD \o SP \o DOT, CD \o TAB \o SLASH \o D,
      CD \o SP \o D \o SLASH \o D, CD \o SP \o D \o SP \o LS,
      CD \o VT \o D, SP \o CD \o SP \o SP \o D \o SP,
      LS \o SP \o GT \o SP \o D \o SP \o LT \o SP \o LS,
      LS \o SP \o LT \o SP \o D \o SP \o GT \o SP \o LS,
      LS \o SP \o D \o SP \o GT \o SP \o LS \o SP \o D,
      SP \o GT \o SP \o LS, SP \o LT \o SP \o D }

Lines == ItemLines \cup ExtraLines

(***************************************************************************)
(* Standard-library string functions used by the program                   *)
(***************************************************************************)
\* char::is_ascii_whitespace: space, tab, line feed, form feed, carriage return
AsciiWhitespace == {" ", "\t", "\n", "\f", "\r"}
\* char::is_whitespace (Unicode White_Space), restricted to the alphabet
White_Space == AsciiWhitespace \cup {"VT"}

\* Variant: only ASCII whitespace is trimmed (str::trim_ascii)
RECURSIVE trim_ascii_start(_)
trim_ascii_start(s) ==
    IF s = <<>> THEN s
    ELSE IF Head(s) \in AsciiWhitespace THEN trim_ascii_start(Tail(s)) ELSE s

RECURSIVE trim_ascii_end(_)
trim_ascii_end(s) ==
    IF s = <<>> THEN s
    ELSE IF s[Len(s)] \in AsciiWhitespace
         THEN trim_ascii_end(SubSeq(s, 1, Len(s) - 1)) ELSE s

trim_ascii(s) == trim_ascii_end(trim_ascii_start(s))

RECURSIVE trim_start(_)
trim_start(s) ==
    IF s = <<>> THEN s
    ELSE IF Head(s) \in White_Space THEN trim_start(Tail(s)) ELSE s

RECURSIVE trim_end(_)
trim_end(s) ==
    IF s = <<>> THEN s
    ELSE IF s[Len(s)] \in White_Space THEN trim_end(SubSeq(s, 1, Len(s) - 1)) ELSE s

\* str::trim
trim(s) == trim_end(trim_start(s))

RECURSIVE SplitFrom(_, _, _)
SplitFrom(s, cur, acc) ==
    IF s = <<>> THEN (IF cur = <<>> THEN acc ELSE Append(acc, cur))
    ELSE IF Head(s) \in AsciiWhitespace
         THEN SplitFrom(Tail(s), <<>>, IF cur = <<>> THEN acc ELSE Append(acc, cur))
         ELSE SplitFrom(Tail(s), Append(cur, Head(s)), acc)

\* str::split_ascii_whitespace(..).collect(): the non-empty maximal runs of
\* characters that are not ASCII whitespace, in order
split_ascii_whitespace(s) == SplitFrom(s, <<>>, <<>>)

\* str::split_once(c): the parts before and after the FIRST occurrence of c
split_once(s, c) ==
    IF \E i \in 1..Len(s) : s[i] = c
    THEN LET i == CHOOSE k \in 1..Len(s) : s[k] = c /\ \A j \in 1..(k - 1) : s[j] # c
         IN  [found |-> TRUE, cmd |-> SubSeq(s, 1, i - 1), filename |-> SubSeq(s, i + 1, Len(s))]
    ELSE [found |-> FALSE, cmd |-> <<>>, filename |-> <<>>]

(***************************************************************************)
(* The operating system as the program sees it                             *)
(***************************************************************************)
\* The directory tree: /, /d and /d/d. A path is the sequence of its names.
Dirs == {<<>>, <<D>>, <<D, D>>}

\* The absolute path string getcwd returns for a directory
RECURSIVE PathString(_)
PathString(p) ==
    IF p = <<>> THEN SLASH
    ELSE IF Len(p) = 1 THEN SLASH \o p[1]
    ELSE PathString(SubSeq(p, 1, Len(p) - 1)) \o SLASH \o p[Len(p)]

RECURSIVE Components(_, _, _)
Components(s, cur, acc) ==
    IF s = <<>> THEN Append(acc, cur)
    ELSE IF Head(s) = "/" THEN Components(Tail(s), <<>>, Append(acc, cur))
         ELSE Components(Tail(s), Append(cur, Head(s)), acc)

RECURSIVE Walk(_, _)
Walk(at, comps) ==
    IF comps = <<>> THEN [ok |-> TRUE, dir |-> at]
    ELSE LET c == Head(comps) IN
         IF c = <<>> \/ c = DOT THEN Walk(at, Tail(comps))
         ELSE IF c = DOTDOT
              THEN Walk(IF at = <<>> THEN at ELSE SubSeq(at, 1, Len(at) - 1), Tail(comps))
         ELSE IF Append(at, c) \in Dirs THEN Walk(Append(at, c), Tail(comps))
         ELSE [ok |-> FALSE, dir |-> at]

\* chdir(2): path resolution of `target` from the directory `from`
chdir(from, target) ==
    IF target = <<>> THEN [ok |-> FALSE, dir |-> from]
    ELSE Walk(IF Head(target) = "/" THEN <<>> ELSE from, Components(target, <<>>, <<>>))

\* What a descriptor refers to
Inherited(n) == [kind |-> "inherited", path |-> <<>>, stream |-> n]
OpenFile(path, n) == [kind |-> "file", path |-> path, stream |-> n]
StartFd == [n \in {0, 1} |-> Inherited(n)]

\* dup2(fd, n): descriptor n of the table now refers to what fd refers to
dup2(table, file, n) == [table EXCEPT ![n] = file]

\* Termination statuses
Running == [kind |-> "none", code |-> 0]
Exited(n) == [kind |-> "exit", code |-> n]
Signalled(n) == [kind |-> "signal", code |-> n]

\* A Rust panic ends the process: status 101 when the build unwinds,
\* SIGABRT when it is built with panic = "abort".
PanicOutcomes == {Exited(101), Signalled(6)}

\* open(2) of an empty path always fails (ENOENT); any other may fail or not
OpenOutcomes(path) == IF path = <<>> THEN {"err"} ELSE {"ok", "err"}

\* How an external program can end
ProgramOutcomes == {Exited(0), Exited(1), Signalled(9)}

Range(q) == {q[i] : i \in 1..Len(q)}

NoChild ==
    /\ childPc = "none"
    /\ childCommand = <<>>
    /\ childFd = StartFd
    /\ execArg = <<>>
    /\ childArgv = <<>>
    /\ childProg = <<>>
    /\ childStatus = Running

Init ==
    /\ pc = "top"
    /\ cwd \in Dirs
    /\ dir = <<>>
    /\ input = <<>>
    /\ parentFd = StartFd
    /\ exitStatus = Running
    /\ stderr = <<>>
    /\ NoChild
    /\ alive = 0
    /\ openResult = "none"
    /\ execResult = "none"
    /\ forked = FALSE
    /\ waitStatus = Running
    /\ cwd0 = cwd
    /\ repeat = FALSE
    /\ prevCd = <<>>
    /\ prevCwd = <<>>

(***************************************************************************)
(* The parent: main.rs, loop body                                          *)
(***************************************************************************)
\* Variant: the line is compared and tokenized without being trimmed
command_untrimmed == input

\* main.rs:25
command == trim(input)
\* main.rs:30
tokens == split_ascii_whitespace(command)
\* Variant: a bare cd stays where it is (unwrap_or(&"."))
target_DefaultDot == IF Len(tokens) >= 2 THEN tokens[2] ELSE DOT

\* main.rs:37
target == IF Len(tokens) >= 2 THEN tokens[2] ELSE SLASH

\* The iteration that ends was a cd that succeeded
PrevCdOk ==
    /\ tokens # <<>>
    /\ tokens[1] = CD
    /\ chdir(cwd0, target).ok

\* A new iteration starts: `input` of the last one is gone, the per-iteration
\* history is cleared, and a successful cd is remembered until the next read
NewIteration ==
    /\ input' = <<>>
    /\ openResult' = "none"
    /\ execResult' = "none"
    /\ forked' = FALSE
    /\ waitStatus' = Running
    /\ repeat' = FALSE
    /\ cwd0' = cwd
    /\ prevCd' = IF PrevCdOk THEN input ELSE <<>>
    /\ prevCwd' = IF PrevCdOk THEN cwd0 ELSE <<>>

\* A panic of the parent (an unwrap of an Err in main)
ParentPanics ==
    /\ pc' = "panicked"
    /\ exitStatus' \in PanicOutcomes
    /\ UNCHANGED <<cwd, dir, parentFd, alive>>
    /\ UNCHANGED childVars

\* main.rs:13-14  getcwd().unwrap() succeeds and the prompt is formatted
RenderPrompt ==
    /\ pc = "top"
    /\ dir' = PathString(cwd)
    /\ pc' = "flush"
    /\ stderr' = <<>>
    /\ NewIteration
    /\ UNCHANGED <<cwd, parentFd, exitStatus, alive>>
    /\ UNCHANGED childVars

\* main.rs:13  getcwd() returns Err: unwrap panics
GetcwdFails ==
    /\ pc = "top"
    /\ stderr' = <<"panicked">>
    /\ NewIteration
    /\ ParentPanics

\* main.rs:16  flush succeeds
Flush ==
    /\ pc = "flush"
    /\ pc' = "read"
    /\ UNCHANGED <<cwd, dir, input, parentFd, exitStatus, stderr, alive>>
    /\ UNCHANGED childVars
    /\ UNCHANGED iterVars
    /\ UNCHANGED histVars

\* main.rs:16  flush returns Err: unwrap panics
FlushFails ==
    /\ pc = "flush"
    /\ stderr' = Append(stderr, "panicked")
    /\ ParentPanics
    /\ UNCHANGED input
    /\ UNCHANGED iterVars
    /\ UNCHANGED histVars

\* main.rs:18-20  read_line returns Ok with a newline-terminated line
ReadLine ==
    /\ pc = "read"
    /\ \E l \in Lines :
        /\ input' = l \o NL
        /\ repeat' = (prevCd = l \o NL)
    /\ pc' = "dispatch"
    /\ prevCd' = <<>>
    /\ prevCwd' = <<>>
    /\ UNCHANGED <<cwd, dir, parentFd, exitStatus, stderr, alive, cwd0>>
    /\ UNCHANGED childVars
    /\ UNCHANGED iterVars

\* main.rs:18-20  read_line returns Ok(0) at end of input: the buffer stays empty
ReadEof ==
    /\ pc = "read"
    /\ input' = <<>>
    /\ pc' = "dispatch"
    /\ prevCd' = <<>>
    /\ prevCwd' = <<>>
    /\ UNCHANGED <<cwd, dir, parentFd, exitStatus, stderr, alive, cwd0, repeat>>
    /\ UNCHANGED childVars
    /\ UNCHANGED iterVars

\* main.rs:20-23  read_line returns Err
ReadFails ==
    /\ pc = "read"
    /\ input' = <<>>
    /\ stderr' = Append(stderr, "Failed to read line")
    /\ pc' = "top"
    /\ prevCd' = <<>>
    /\ prevCwd' = <<>>
    /\ UNCHANGED <<cwd, dir, parentFd, exitStatus, alive, cwd0, repeat>>
    /\ UNCHANGED childVars
    /\ UNCHANGED iterVars

\* Variant: the built-in is matched on the first token (tokens[0] == "exit")
ExitBuiltin_FirstToken ==
    /\ pc = "dispatch"
    /\ tokens # <<>>
    /\ tokens[1] = EXIT
    /\ pc' = "exited"
    /\ exitStatus' = Exited(0)
    /\ UNCHANGED <<cwd, dir, input, parentFd, stderr, alive>>
    /\ UNCHANGED childVars
    /\ UNCHANGED iterVars
    /\ UNCHANGED histVars

\* main.rs:26-28
ExitBuiltin ==
    /\ pc = "dispatch"
    /\ command = EXIT
    /\ pc' = "exited"
    /\ exitStatus' = Exited(0)
    /\ UNCHANGED <<cwd, dir, input, parentFd, stderr, alive>>
    /\ UNCHANGED childVars
    /\ UNCHANGED iterVars
    /\ UNCHANGED histVars

\* main.rs:32-34
BlankLine ==
    /\ pc = "dispatch"
    /\ command # EXIT
    /\ tokens = <<>>
    /\ pc' = "top"
    /\ UNCHANGED <<cwd, dir, input, parentFd, exitStatus, stderr, alive>>
    /\ UNCHANGED childVars
    /\ UNCHANGED iterVars
    /\ UNCHANGED histVars

\* Variant: the result of chdir is unwrapped, so a failure panics the parent
CdBuiltin_Unwrap ==
    /\ pc = "dispatch"
    /\ command # EXIT
    /\ tokens # <<>>
    /\ tokens[1] = CD
    /\ LET r == chdir(cwd, target) IN
        IF r.ok
        THEN /\ cwd' = r.dir
             /\ pc' = "top"
             /\ UNCHANGED <<stderr, exitStatus>>
        ELSE /\ stderr' = Append(stderr, "panicked")
             /\ pc' = "panicked"
             /\ exitStatus' \in PanicOutcomes
             /\ UNCHANGED cwd
    /\ UNCHANGED <<dir, input, parentFd, alive>>
    /\ UNCHANGED childVars
    /\ UNCHANGED iterVars
    /\ UNCHANGED histVars

\* main.rs:36-42
CdBuiltin ==
    /\ pc = "dispatch"
    /\ command # EXIT
    /\ tokens # <<>>
    /\ tokens[1] = CD
    /\ LET r == chdir(cwd, target) IN
        IF r.ok
        THEN /\ cwd' = r.dir
             /\ UNCHANGED stderr
        ELSE /\ stderr' = Append(stderr, "cd :")
             /\ UNCHANGED cwd
    /\ pc' = "top"
    /\ UNCHANGED <<dir, input, parentFd, exitStatus, alive>>
    /\ UNCHANGED childVars
    /\ UNCHANGED iterVars
    /\ UNCHANGED histVars

\* Neither built-in: the line goes to fork (main.rs:44)
IsExternal ==
    /\ pc = "dispatch"
    /\ command # EXIT
    /\ tokens # <<>>
    /\ tokens[1] # CD

\* main.rs:44, 58-60  fork succeeds; the parent goes on to waitpid
Fork ==
    /\ IsExternal
    /\ childPc' = "start"
    /\ childCommand' = command
    /\ childFd' = parentFd
    /\ alive' = alive + 1
    /\ forked' = TRUE
    /\ pc' = "wait"
    /\ UNCHANGED <<execArg, childArgv, childProg, childStatus>>
    /\ UNCHANGED <<cwd, dir, input, parentFd, exitStatus, stderr>>
    /\ UNCHANGED <<openResult, execResult, waitStatus>>
    /\ UNCHANGED histVars

\* Variant: the fork error is unwrapped (fork().unwrap())
ForkFails_Unwrap ==
    /\ IsExternal
    /\ pc' = "exited"
    /\ exitStatus' \in PanicOutcomes
    /\ UNCHANGED <<cwd, dir, input, parentFd, stderr, alive>>
    /\ UNCHANGED childVars
    /\ UNCHANGED iterVars
    /\ UNCHANGED histVars

\* main.rs:44, 61-63  fork returns Err
ForkFails ==
    /\ IsExternal
    /\ stderr' = Append(stderr, "Fork failed: ")
    /\ pc' = "top"
    /\ UNCHANGED <<cwd, dir, input, parentFd, exitStatus, alive>>
    /\ UNCHANGED childVars
    /\ UNCHANGED iterVars
    /\ UNCHANGED histVars

\* Variant: the status is looked at, and a child that did not exit with 0 is reported
Waitpid_PropagatesStatus ==
    /\ pc = "wait"
    /\ childPc = "terminated"
    /\ childPc' = "none"
    /\ childCommand' = <<>>
    /\ childFd' = StartFd
    /\ execArg' = <<>>
    /\ childArgv' = <<>>
    /\ childProg' = <<>>
    /\ childStatus' = Running
    /\ pc' = "top"
    /\ stderr' = IF childStatus = Exited(0) THEN stderr ELSE Append(stderr, "status")
    /\ UNCHANGED <<cwd, dir, input, parentFd, exitStatus, alive>>
    /\ waitStatus' = childStatus
    /\ UNCHANGED <<openResult, execResult, forked>>
    /\ UNCHANGED histVars

\* Variant: the wait does not block (WNOHANG), the child is left running
Waitpid_NoHang ==
    /\ pc = "wait"
    /\ pc' = "top"
    /\ UNCHANGED <<cwd, dir, input, parentFd, exitStatus, stderr, alive>>
    /\ UNCHANGED childVars
    /\ UNCHANGED iterVars
    /\ UNCHANGED histVars

\* main.rs:59  waitpid(child, None) blocks until the child has terminated and
\* reaps it; its result, Ok(status) or Err, is discarded. The program installs
\* no signal handler, so the call is not interrupted (EINTR) before that; with
\* SIGCHLD ignored it returns ECHILD, also only once the child has terminated.
Waitpid ==
    /\ pc = "wait"
    /\ childPc = "terminated"
    /\ childPc' = "none"
    /\ childCommand' = <<>>
    /\ childFd' = StartFd
    /\ execArg' = <<>>
    /\ childArgv' = <<>>
    /\ childProg' = <<>>
    /\ childStatus' = Running
    /\ pc' = "top"
    /\ UNCHANGED <<cwd, dir, input, parentFd, exitStatus, stderr, alive>>
    /\ waitStatus' = childStatus
    /\ UNCHANGED <<openResult, execResult, forked>>
    /\ UNCHANGED histVars

(***************************************************************************)
(* The child: main.rs:45-57 and executor.rs                                *)
(***************************************************************************)
\* A panic of the child
ChildPanics ==
    /\ childPc' = "terminated"
    /\ childStatus' \in PanicOutcomes
    /\ alive' = alive - 1
    /\ stderr' = Append(stderr, "panicked")

\* Variant: standard output is remapped in the parent, before the fork returns
ChildRedirectOut_InParent ==
    /\ childPc = "start"
    /\ LET s == split_once(childCommand, ">") IN
        /\ s.found
        /\ "ok" \in OpenOutcomes(trim(s.filename))
        /\ childFd' = dup2(childFd, OpenFile(trim(s.filename), 1), 1)
        /\ parentFd' = dup2(parentFd, OpenFile(trim(s.filename), 1), 1)
        /\ execArg' = s.cmd
    /\ openResult' = "ok"
    /\ childPc' = "exec"
    /\ UNCHANGED <<childCommand, childArgv, childProg, childStatus, stderr, alive>>
    /\ UNCHANGED <<execResult, forked, waitStatus>>
    /\ UNCHANGED <<pc, cwd, dir, input, exitStatus>>
    /\ UNCHANGED histVars

\* main.rs:46-49  `>` found, the file opens; dup2's result is discarded
ChildRedirectOut ==
    /\ childPc = "start"
    /\ LET s == split_once(childCommand, ">") IN
        /\ s.found
        /\ "ok" \in OpenOutcomes(trim(s.filename))
        /\ \E d \in {"ok", "err"} :
            childFd' = IF d = "ok" THEN dup2(childFd, OpenFile(trim(s.filename), 1), 1)
                       ELSE childFd
        /\ execArg' = s.cmd
    /\ openResult' = "ok"
    /\ childPc' = "exec"
    /\ UNCHANGED <<childCommand, childArgv, childProg, childStatus, stderr, alive>>
    /\ UNCHANGED <<execResult, forked, waitStatus>>
    /\ UNCHANGED parentVars
    /\ UNCHANGED histVars

\* Variant: `<` is honored whether or not the line has a `>`
ChildRedirectIn_First ==
    /\ childPc = "start"
    /\ LET s == split_once(childCommand, "<") IN
        /\ s.found
        /\ "ok" \in OpenOutcomes(trim(s.filename))
        /\ \E d \in {"ok", "err"} :
            childFd' = IF d = "ok" THEN dup2(childFd, OpenFile(trim(s.filename), 0), 0)
                       ELSE childFd
        /\ execArg' = s.cmd
    /\ openResult' = "ok"
    /\ childPc' = "exec"
    /\ UNCHANGED <<childCommand, childArgv, childProg, childStatus, stderr, alive>>
    /\ UNCHANGED <<execResult, forked, waitStatus>>
    /\ UNCHANGED parentVars
    /\ UNCHANGED histVars

\* main.rs:50-53  no `>`, `<` found, the file opens; dup2's result is discarded
ChildRedirectIn ==
    /\ childPc = "start"
    /\ ~split_once(childCommand, ">").found
    /\ LET s == split_once(childCommand, "<") IN
        /\ s.found
        /\ "ok" \in OpenOutcomes(trim(s.filename))
        /\ \E d \in {"ok", "err"} :
            childFd' = IF d = "ok" THEN dup2(childFd, OpenFile(trim(s.filename), 0), 0)
                       ELSE childFd
        /\ execArg' = s.cmd
    /\ openResult' = "ok"
    /\ childPc' = "exec"
    /\ UNCHANGED <<childCommand, childArgv, childProg, childStatus, stderr, alive>>
    /\ UNCHANGED <<execResult, forked, waitStatus>>
    /\ UNCHANGED parentVars
    /\ UNCHANGED histVars

\* Variant: the open error is dropped and the command runs without the remap
ChildOpenFails_Ignored ==
    /\ childPc = "start"
    /\ \/ split_once(childCommand, ">").found
       \/ split_once(childCommand, "<").found
    /\ openResult' = "err"
    /\ execArg' = IF split_once(childCommand, ">").found
                  THEN split_once(childCommand, ">").cmd
                  ELSE split_once(childCommand, "<").cmd
    /\ childPc' = "exec"
    /\ UNCHANGED <<childCommand, childFd, childArgv, childProg, childStatus, stderr, alive>>
    /\ UNCHANGED <<execResult, forked, waitStatus>>
    /\ UNCHANGED parentVars
    /\ UNCHANGED histVars

\* main.rs:47, 51  open returns Err: unwrap panics in the child
ChildOpenFails ==
    /\ childPc = "start"
    /\ \/ split_once(childCommand, ">").found
       \/ split_once(childCommand, "<").found
    /\ openResult' = "err"
    /\ ChildPanics
    /\ UNCHANGED <<childCommand, childFd, execArg, childArgv, childProg>>
    /\ UNCHANGED <<execResult, forked, waitStatus>>
    /\ UNCHANGED parentVars
    /\ UNCHANGED histVars

\* main.rs:54-56  no operator
ChildNoRedirect ==
    /\ childPc = "start"
    /\ ~split_once(childCommand, ">").found
    /\ ~split_once(childCommand, "<").found
    /\ execArg' = childCommand
    /\ childPc' = "exec"
    /\ UNCHANGED <<childCommand, childFd, childArgv, childProg, childStatus, stderr, alive>>
    /\ UNCHANGED iterVars
    /\ UNCHANGED parentVars
    /\ UNCHANGED histVars

\* executor.rs:5-8  no tokens: cstr_args[0] is out of bounds and panics
ExecEmpty ==
    /\ childPc = "exec"
    /\ split_ascii_whitespace(execArg) = <<>>
    /\ execResult' = "index"
    /\ ChildPanics
    /\ UNCHANGED <<childCommand, childFd, execArg, childArgv, childProg>>
    /\ UNCHANGED <<openResult, forked, waitStatus>>
    /\ UNCHANGED parentVars
    /\ UNCHANGED histVars

\* Variant: the program name is left out of the arguments (&cstr_args[1..])
ExecOk_ArgsOnly ==
    /\ childPc = "exec"
    /\ split_ascii_whitespace(execArg) # <<>>
    /\ childProg' = split_ascii_whitespace(execArg)[1]
    /\ childArgv' = Tail(split_ascii_whitespace(execArg))
    /\ execResult' = "ok"
    /\ childPc' = "running"
    /\ UNCHANGED <<childCommand, childFd, execArg, childStatus, stderr, alive>>
    /\ UNCHANGED <<openResult, forked, waitStatus>>
    /\ UNCHANGED parentVars
    /\ UNCHANGED histVars

\* executor.rs:5-12  execvp succeeds: the image is replaced
ExecOk ==
    /\ childPc = "exec"
    /\ split_ascii_whitespace(execArg) # <<>>
    /\ childProg' = split_ascii_whitespace(execArg)[1]
    /\ childArgv' = split_ascii_whitespace(execArg)
    /\ execResult' = "ok"
    /\ childPc' = "running"
    /\ UNCHANGED <<childCommand, childFd, execArg, childStatus, stderr, alive>>
    /\ UNCHANGED <<openResult, forked, waitStatus>>
    /\ UNCHANGED parentVars
    /\ UNCHANGED histVars

\* Variant: the failure path ends the child with status 0
ExecFails_Status0 ==
    /\ childPc = "exec"
    /\ split_ascii_whitespace(execArg) # <<>>
    /\ execResult' = "err"
    /\ stderr' = Append(stderr, "Execution failed: ")
    /\ childStatus' = Exited(0)
    /\ childPc' = "terminated"
    /\ alive' = alive - 1
    /\ UNCHANGED <<childCommand, childFd, execArg, childArgv, childProg>>
    /\ UNCHANGED <<openResult, forked, waitStatus>>
    /\ UNCHANGED parentVars
    /\ UNCHANGED histVars

\* Variant: run_execvp returns after the diagnostic, and the child falls out of
\* the match back into the loop
ExecFails_Returns ==
    /\ childPc = "exec"
    /\ split_ascii_whitespace(execArg) # <<>>
    /\ execResult' = "err"
    /\ stderr' = Append(stderr, "Execution failed: ")
    /\ childPc' = "top"
    /\ UNCHANGED <<childCommand, childFd, execArg, childArgv, childProg, childStatus, alive>>
    /\ UNCHANGED <<openResult, forked, waitStatus>>
    /\ UNCHANGED parentVars
    /\ UNCHANGED histVars

\* executor.rs:13-16  execvp returns Err
ExecFails ==
    /\ childPc = "exec"
    /\ split_ascii_whitespace(execArg) # <<>>
    /\ execResult' = "err"
    /\ stderr' = Append(stderr, "Execution failed: ")
    /\ childStatus' = Exited(1)
    /\ childPc' = "terminated"
    /\ alive' = alive - 1
    /\ UNCHANGED <<childCommand, childFd, execArg, childArgv, childProg>>
    /\ UNCHANGED <<openResult, forked, waitStatus>>
    /\ UNCHANGED parentVars
    /\ UNCHANGED histVars

\* The external program ends, by exit or by a signal
ProgramEnds ==
    /\ childPc = "running"
    /\ childStatus' \in ProgramOutcomes
    /\ childPc' = "terminated"
    /\ alive' = alive - 1
    /\ UNCHANGED <<childCommand, childFd, execArg, childArgv, childProg, stderr>>
    /\ UNCHANGED iterVars
    /\ UNCHANGED parentVars
    /\ UNCHANGED histVars

Next ==
    \/ RenderPrompt
    \/ GetcwdFails
    \/ Flush
    \/ FlushFails
    \/ ReadLine
    \/ ReadEof
    \/ ReadFails
    \/ ExitBuiltin
    \/ BlankLine
    \/ CdBuiltin
    \/ Fork
    \/ ForkFails
    \/ Waitpid
    \/ ChildRedirectOut
    \/ ChildRedirectIn
    \/ ChildOpenFails
    \/ ChildNoRedirect
    \/ ExecEmpty
    \/ ExecOk
    \/ ExecFails
    \/ ProgramEnds

Spec == Init /\ [][Next]_vars

\* The loop of main.rs:12-65 keeps running: a blocking call returns (input keeps
\* arriving, a spawned program ends) and a process that can step does step
FairSpec == Spec /\ WF_vars(Next)

(***************************************************************************)
(* Properties                                                              *)
(***************************************************************************)
\* Every character of s is whitespace
IsBlank(s) == \A i \in 1..Len(s) : s[i] \in White_Space

\* s is the word exit, with nothing but whitespace before and after it
IsExitLine(s) ==
    \E i \in 0..Len(s) :
        /\ i + 4 <= Len(s)
        /\ SubSeq(s, i + 1, i + 4) = EXIT
        /\ \A k \in 1..i : s[k] \in White_Space
        /\ \A k \in (i + 5)..Len(s) : s[k] \in White_Space

\* C1: the interpreter terminates only by executing the exit built-in: whenever
\* the parent has terminated, it did so with status 0 on a line that trims to exit.
C1_OnlyExitTerminates ==
    exitStatus # Running =>
        /\ pc = "exited"
        /\ exitStatus = Exited(0)
        /\ IsExitLine(input)

\* C2: at most one child is alive, and while a child that has not terminated
\* exists the parent is blocked in waitpid: it is never at the prompt, the read or
\* the dispatch, and it leaves the wait only with the child reaped.
C2_OneChildParentWaits ==
    /\ alive <= 1
    /\ childPc \in {"start", "exec", "running"} => (pc = "wait" /\ alive = 1)
    /\ alive > 0 => pc = "wait"
    /\ pc \in {"top", "flush", "read", "dispatch"} => childPc = "none"

C2_Witness ==
    /\ pc = "top"
    /\ forked
    /\ execResult = "ok"
    /\ alive = 0
    /\ childPc = "none"

\* C3: a line that is empty or all whitespace is a no-op: the dispatch step takes
\* the parent back to the top of the loop with no fork, no change of working
\* directory and no exit.
C3_BlankLineNoEffect ==
    [][(pc = "dispatch" /\ IsBlank(input)) =>
          /\ pc' = "top"
          /\ cwd' = cwd
          /\ ~forked'
          /\ alive' = 0
          /\ childPc' = "none"
          /\ exitStatus' = Running]_vars

C3_Witness ==
    /\ pc = "top"
    /\ Len(input) > 1
    /\ IsBlank(input)
    /\ \E i \in 1..Len(input) : input[i] = "VT"
    /\ ~forked
    /\ cwd = cwd0

\* C4: a line whose trimmed text is exit terminates the interpreter with status 0,
\* and no child is created in that iteration.
C4_ExitTerminates ==
    [][(pc = "dispatch" /\ IsExitLine(input)) =>
          /\ pc' = "exited"
          /\ exitStatus' = Exited(0)
          /\ ~forked'
          /\ alive' = 0
          /\ childPc' = "none"]_vars

C4_Witness ==
    /\ pc = "exited"
    /\ exitStatus = Exited(0)
    /\ IsExitLine(input)
    /\ Len(input) > 5
    /\ ~forked

\* The token sequence and the cd target of a line, as the claims use them
LineTokens(line) == split_ascii_whitespace(trim(line))
FirstTokenIsCd(line) == LineTokens(line) # <<>> /\ LineTokens(line)[1] = CD
LineTarget(line) == IF Len(LineTokens(line)) >= 2 THEN LineTokens(line)[2] ELSE SLASH
HasOperator(s) == \E i \in 1..Len(s) : s[i] \in {">", "<"}

\* C5: when execvp fails the child prints the diagnostic and exits with status 1
\* without ever running a program; the parent does not terminate, only waits and
\* returns to the top of the loop, and its working directory and descriptors are
\* those the iteration started with, so later lines are dispatched as before.
C5_ExecFailureContained ==
    execResult = "err" =>
        /\ childPc \in {"terminated", "none"}
        /\ childPc = "terminated" => childStatus = Exited(1)
        /\ "Execution failed: " \in Range(stderr)
        /\ childArgv = <<>>
        /\ pc \in {"wait", "top"}
        /\ pc = "top" => childPc = "none"
        /\ exitStatus = Running
        /\ cwd = cwd0
        /\ parentFd = StartFd

C5_Witness ==
    /\ execResult = "err"
    /\ pc = "top"
    /\ childPc = "none"
    /\ stderr = <<"Execution failed: ">>

\* C6: run_execvp on a command string with no tokens takes the failure path: the
\* diagnostic of the failure path is printed and the child exits with status 1.
C6_EmptyCommandIsFailure ==
    (childPc = "terminated" /\ execResult # "none"
        /\ split_ascii_whitespace(execArg) = <<>>) =>
        /\ execResult = "err"
        /\ "Execution failed: " \in Range(stderr)
        /\ childStatus = Exited(1)

\* C7: a cd whose target cannot be entered prints one error, leaves the working
\* directory as it was, spawns no child and returns to the top of the loop.
C7_CdFailureKeepsDirectory ==
    [][(pc = "dispatch" /\ FirstTokenIsCd(input)
            /\ ~chdir(cwd, LineTarget(input)).ok) =>
          /\ pc' = "top"
          /\ cwd' = cwd
          /\ stderr' = Append(stderr, "cd :")
          /\ ~forked'
          /\ alive' = 0
          /\ childPc' = "none"
          /\ exitStatus' = Running]_vars

C7_Witness ==
    /\ pc = "top"
    /\ FirstTokenIsCd(input)
    /\ ~chdir(cwd0, LineTarget(input)).ok
    /\ "cd :" \in Range(stderr)
    /\ cwd = cwd0

\* The prompt after a successful cd shows the directory its target denotes
PromptShowsTarget ==
    (pc \in {"flush", "read"} /\ prevCd # <<>>) =>
        dir = PathString(chdir(prevCwd, LineTarget(prevCd)).dir)

\* A successful cd has moved to its target, with no fork
CdEntersTarget ==
    (pc = "top" /\ FirstTokenIsCd(input) /\ chdir(cwd0, LineTarget(input)).ok) =>
        /\ cwd = chdir(cwd0, LineTarget(input)).dir
        /\ ~forked
        /\ alive = 0
        /\ stderr = <<>>
        /\ LineTarget(input) = DOT => cwd = cwd0

\* C8 as claimed: after a cd to an existing directory the next prompt shows the
\* target, no child is spawned, and repeating the same cd (or cd .) leaves the
\* working directory unchanged.
C8_RepeatedCdUnchanged ==
    /\ PromptShowsTarget
    /\ CdEntersTarget
    /\ (pc = "top" /\ repeat /\ chdir(cwd0, LineTarget(input)).ok) => cwd = cwd0

\* C8 amended: after a cd to an existing directory the next prompt shows the
\* directory the target denotes, no child is spawned, and cd . , or repeating the
\* same cd when its target is an absolute path, leaves the working directory
\* unchanged.
C8_AbsoluteCdIdempotent ==
    /\ PromptShowsTarget
    /\ CdEntersTarget
    /\ (pc = "top" /\ repeat /\ chdir(cwd0, LineTarget(input)).ok
            /\ Head(LineTarget(input)) = "/") => cwd = cwd0

C8_Witness ==
    /\ pc = "top"
    /\ repeat
    /\ Head(LineTarget(input)) = "/"
    /\ Len(LineTarget(input)) > 1
    /\ cwd = cwd0
    /\ cwd # <<>>

\* C9: the parent's standard input and output always refer to what they referred
\* to at start-up; every child starts with that same table, and a child whose line
\* has no redirection operator keeps it up to and past exec.
C9_RemapLocalToChild ==
    /\ parentFd = StartFd
    /\ childPc = "start" => childFd = StartFd
    /\ (childPc # "none" /\ ~HasOperator(childCommand)) => childFd = StartFd

C9_Witness ==
    /\ childPc = "running"
    /\ childFd[1].kind = "file"
    /\ parentFd = StartFd
    /\ pc = "wait"

\* C10: when open fails in the child, the child terminates without exec ever being
\* attempted, and the parent only waits and returns to the top of the loop, alive
\* and with its working directory and descriptors unchanged.
C10_OpenFailureKillsChildOnly ==
    openResult = "err" =>
        /\ childPc \in {"terminated", "none"}
        /\ childPc = "terminated" => childStatus \in PanicOutcomes
        /\ execResult = "none"
        /\ childArgv = <<>>
        /\ alive = 0
        /\ pc \in {"wait", "top"}
        /\ pc = "top" => childPc = "none"
        /\ exitStatus = Running
        /\ cwd = cwd0
        /\ parentFd = StartFd

C10_Witness ==
    /\ openResult = "err"
    /\ pc = "top"
    /\ childPc = "none"
    /\ exitStatus = Running

\* C11: a read that delivers no line (end of input or an I/O error) is reported
\* and the loop goes on to the next iteration, with no fork, no change of working
\* directory and no termination.
C11_ReadFailureReported ==
    [][(pc = "read" /\ input' = <<>>) =>
          /\ pc' = "top"
          /\ stderr' = Append(stderr, "Failed to read line")
          /\ cwd' = cwd
          /\ ~forked'
          /\ alive' = 0
          /\ exitStatus' = Running]_vars

\* The parts of a line around its honored operator, as the claims use them:
\* `>` if the line has one, else `<` if it has one
Contains(s, c) == \E i \in 1..Len(s) : s[i] = c

RECURSIVE Before(_, _)
Before(s, c) ==
    IF s = <<>> \/ Head(s) = c THEN <<>> ELSE <<Head(s)>> \o Before(Tail(s), c)

After(s, c) == SubSeq(s, Len(Before(s, c)) + 2, Len(s))

HonoredOp(line) ==
    IF Contains(line, ">") THEN ">" ELSE IF Contains(line, "<") THEN "<" ELSE "none"

CommandPart(line) ==
    IF HonoredOp(line) = "none" THEN line ELSE Before(line, HonoredOp(line))

FilenamePart(line) == trim(After(line, HonoredOp(line)))

\* C12: when run_execvp is invoked, and in the image that replaces the child, the
\* stream of the honored operator refers to the file named by the filename-part:
\* standard output for `>`, standard input for `<`.
C12_RemapBeforeExec ==
    (childPc \in {"exec", "running"} /\ HonoredOp(childCommand) # "none") =>
        IF HonoredOp(childCommand) = ">"
        THEN childFd[1] = OpenFile(FilenamePart(childCommand), 1)
        ELSE childFd[0] = OpenFile(FilenamePart(childCommand), 0)

\* C13: one operator per line, `>` before `<`: a line with `>` is split at its
\* first `>` and has only standard output remapped, standard input is remapped
\* only for a line with `<` and no `>`, and a line with neither is run unsplit
\* with no remapping.
C13_OneOperatorOutFirst ==
    /\ (childPc # "none" /\ Contains(childCommand, ">")) =>
          /\ childFd[0] = Inherited(0)
          /\ childFd[1] \in {Inherited(1), OpenFile(trim(After(childCommand, ">")), 1)}
    /\ (childPc # "none" /\ ~Contains(childCommand, ">")) =>
          /\ childFd[1] = Inherited(1)
          /\ childFd[0] # Inherited(0) =>
                /\ Contains(childCommand, "<")
                /\ childFd[0] = OpenFile(trim(After(childCommand, "<")), 0)
    /\ childPc \in {"exec", "running"} => execArg = CommandPart(childCommand)

C13_Witness ==
    /\ childPc = "running"
    /\ Contains(childCommand, ">")
    /\ Contains(Before(childCommand, ">"), "<")
    /\ childFd[1].kind = "file"
    /\ childFd[0] = Inherited(0)

\* C14: the replaced image gets as its argument vector the whitespace-delimited
\* tokens of the command-part, in order, with argument 0 the program executed;
\* no argument contains the honored operator.
C14_ArgvIsCommandTokens ==
    childPc = "running" =>
        /\ childArgv = split_ascii_whitespace(CommandPart(childCommand))
        /\ childArgv # <<>>
        /\ childArgv[1] = childProg
        /\ \A i \in 1..Len(childArgv) :
              /\ childArgv[i] # <<>>
              /\ ~Contains(childArgv[i], HonoredOp(childCommand))
              /\ \A k \in 1..Len(childArgv[i]) : childArgv[i][k] \notin AsciiWhitespace

C14_Witness ==
    /\ childPc = "running"
    /\ HonoredOp(childCommand) = ">"
    /\ Len(childArgv) = 2
    /\ FilenamePart(childCommand) # <<>>
    /\ childFd[1] = OpenFile(FilenamePart(childCommand), 1)

\* An external line: not blank, not the exit built-in, not cd
IsExternalLine(line) ==
    /\ ~IsBlank(line)
    /\ ~IsExitLine(line)
    /\ ~FirstTokenIsCd(line)

\* C15: dispatching an external line either creates the child and sends the
\* parent to the wait, or, when the duplication fails, reports the error and takes
\* the parent straight back to the top of the loop: no child exists, nothing is
\* waited for, and the parent is alive in the same working directory.
C15_ForkFailureContinues ==
    [][(pc = "dispatch" /\ IsExternalLine(input) /\ pc' # pc) =>
          \/ /\ forked'
             /\ pc' = "wait"
             /\ childPc' = "start"
             /\ alive' = 1
             /\ stderr' = stderr
          \/ /\ ~forked'
             /\ pc' = "top"
             /\ stderr' = Append(stderr, "Fork failed: ")
             /\ childPc' = "none"
             /\ alive' = 0
             /\ waitStatus' = Running
             /\ exitStatus' = Running
             /\ cwd' = cwd /\ dir' = dir /\ parentFd' = parentFd]_vars

C15_Witness ==
    /\ pc = "top"
    /\ IsExternalLine(input)
    /\ ~forked
    /\ stderr = <<"Fork failed: ">>
    /\ childPc = "none"
    /\ alive = 0

\* C16: the step that ends the wait is the same for every way the child ended:
\* the parent goes to the top of the loop with its working directory, descriptors,
\* liveness and output exactly as they were, and the state it resumes the loop
\* from is the one the iteration started with.
C16_StatusDiscarded ==
    [][(pc = "wait" /\ pc' # "wait") =>
          /\ pc' = "top"
          /\ cwd' = cwd /\ dir' = dir /\ parentFd' = parentFd
          /\ input' = input
          /\ exitStatus' = Running
          /\ stderr' = stderr
          /\ cwd' = cwd0 /\ parentFd' = StartFd
          /\ alive' = 0 /\ childPc' = "none"]_vars

C16_Witness ==
    /\ pc = "top"
    /\ waitStatus = Signalled(9)
    /\ exitStatus = Running
    /\ stderr = <<>>

\* C17: a line whose first token is exit and that has further tokens is not the
\* built-in: dispatching it never terminates the parent, it forks a child for
\* the whole trimmed line (or reports the failed fork), and the wait for that
\* child returns to the top of the loop.
C17_ExitWithArgsIsExternal ==
    [][(/\ pc \in {"dispatch", "wait"}
        /\ Len(LineTokens(input)) >= 2
        /\ LineTokens(input)[1] = EXIT
        /\ pc' # pc) =>
          /\ exitStatus' = Running
          /\ pc = "dispatch" =>
                \/ pc' = "wait" /\ forked' /\ childPc' = "start"
                      /\ childCommand' = trim(input)
                \/ pc' = "top" /\ ~forked'
                      /\ stderr' = Append(stderr, "Fork failed: ")
          /\ pc = "wait" => pc' = "top"]_vars

C17_Witness ==
    /\ pc = "top"
    /\ Len(LineTokens(input)) >= 2
    /\ LineTokens(input)[1] = EXIT
    /\ forked
    /\ waitStatus # Running
    /\ exitStatus = Running

\* C18: every iteration that dispatches a line other than exit leads to the next
\* prompt being rendered.
C18_NextPromptRendered ==
    (pc = "dispatch" /\ ~IsExitLine(input)) ~> (pc = "flush")

\* C19: a child is only ever at the start of the child branch, in run_execvp,
\* replaced by the external program, or terminated; each of its steps moves it
\* forward along that line and leaves the parent's position, input, working
\* directory and the number of processes alone.
C19_ChildNeverLoops ==
    [][(childPc \notin {"none", "terminated"} /\ childPc' # childPc) =>
          /\ childPc = "start" => childPc' \in {"exec", "terminated"}
          /\ childPc = "exec" => childPc' \in {"running", "terminated"}
          /\ childPc = "running" => childPc' = "terminated"
          /\ alive' <= alive
          /\ UNCHANGED <<pc, cwd, dir, input, parentFd, exitStatus>>]_vars

C19_Witness ==
    /\ childPc = "terminated"
    /\ execResult = "index"
    /\ pc = "wait"
    /\ HonoredOp(childCommand) = "<"
    /\ input # <<>>

\* Every such iteration does come back to the top of the loop
C18_BackToTop ==
    (pc = "dispatch" /\ ~IsExitLine(input)) ~> (pc = "top")

====
